---- MODULE Spec2Model ----
(***************************************************************************)
(* Model of the portfolio aggregation pipeline:                            *)
(*   src/aggregate_portfolio.py  normalize_header, read_portfolio_file,    *)
(*                               main (merge loop, period sort, report)    *)
(*   src/web_app/app.py          read_portfolio_data (report read-back)    *)
(*                                                                         *)
(* Text is modelled as a sequence of one-character strings, so that        *)
(* lower(), strip(), split(), replace() and the substring tests of the     *)
(* code are computed, not assumed.  A cell value is a record               *)
(*   [t, s, n, v]  with t the Python type of the value:                    *)
(*     "nan"    float NaN (an empty spreadsheet cell read by pandas)       *)
(*     "none"   None (row.get of a column that does not exist)             *)
(*     "str"    text s                                                     *)
(*     "num"    the number n                                               *)
(*     "series" a pandas Series v labelled s (row.get of a column label    *)
(*              that occurs more than once)                                *)
(***************************************************************************)
EXTENDS Integers, Sequences, FiniteSets, TLC

\* ------------------------------------------------------------------ text

UpperCase == <<"A", "B", "C", "D", "E", "F", "G", "H", "I", "J", "K", "L", "M", "N", "O", "P", "Q", "R", "S", "T", "U", "V", "W", "X", "Y", "Z">>
LowerCase == <<"a", "b", "c", "d", "e", "f", "g", "h", "i", "j", "k", "l", "m", "n", "o", "p", "q", "r", "s", "t", "u", "v", "w", "x", "y", "z">>
Digits == <<"0", "1", "2", "3", "4", "5", "6", "7", "8", "9">>
Whitespace == {" ", "\n", "\t"}

\* str.lower() on one character, then on a text
LowerChar(c) ==
    IF \E k \in 1..26 : UpperCase[k] = c
    THEN LowerCase[CHOOSE k \in 1..26 : UpperCase[k] = c]
    ELSE c

Lower(s) == [k \in 1..Len(s) |-> LowerChar(s[k])]

\* the Python test  sub in s
Contains(s, sub) ==
    \E k \in 0..(Len(s) - Len(sub)) : SubSeq(s, k + 1, k + Len(sub)) = sub

\* str.replace('\n', ' ')
ReplaceNewline(s) == [k \in 1..Len(s) |-> IF s[k] = "\n" THEN " " ELSE s[k]]

\* str.strip()
Strip(s) ==
    LET keep == {k \in 1..Len(s) : s[k] \notin Whitespace}
    IN  IF keep = {} THEN <<>>
        ELSE SubSeq(s, CHOOSE a \in keep : \A b \in keep : a <= b,
                       CHOOSE a \in keep : \A b \in keep : a >= b)

\* " ".join(s.split()): every run of whitespace between two words becomes one blank,
\* leading and trailing whitespace goes
IsKept(c) == c # ""

SplitJoin(s) ==
    LET n == Len(s)
        words == {k \in 1..n : s[k] \notin Whitespace}
        last == IF words = {} THEN 0 ELSE CHOOSE a \in words : \A b \in words : a >= b
        marked == [k \in 1..n |->
                      IF s[k] \notin Whitespace THEN s[k]
                      ELSE IF k > 1 /\ k < last /\ s[k - 1] \notin Whitespace THEN " "
                      ELSE ""]
    IN  SelectSeq(marked, IsKept)

\* str(int) for a natural number
RECURSIVE Decimal(_)
Decimal(n) == IF n < 10 THEN <<Digits[n + 1]>> ELSE Decimal(n \div 10) \o <<Digits[(n % 10) + 1]>>

\* str.isdigit() restricted to the ASCII digits, and int() of such a text
IsDigit(s) == s # <<>> /\ \A k \in 1..Len(s) : \E d \in 1..10 : Digits[d] = s[k]

RECURSIVE IntOf(_)
IntOf(s) ==
    IF s = <<>> THEN 0
    ELSE 10 * IntOf(SubSeq(s, 1, Len(s) - 1)) + ((CHOOSE d \in 1..10 : Digits[d] = s[Len(s)]) - 1)

\* ------------------------------------------------------------ cell values

NaN == [t |-> "nan", s |-> <<>>, n |-> 0, v |-> <<>>]
None == [t |-> "none", s |-> <<>>, n |-> 0, v |-> <<>>]
Str(s) == [t |-> "str", s |-> s, n |-> 0, v |-> <<>>]
Num(n) == [t |-> "num", s |-> <<>>, n |-> n, v |-> <<>>]
Series(label, v) == [t |-> "series", s |-> label, n |-> 0, v |-> v]

\* pd.notna / pd.isna of a scalar
NotNa(x) == x.t \notin {"nan", "none"}

\* str(x).  A Series prints one "label value" line per element and a dtype line.
RECURSIVE SeriesLines(_, _)
SeriesLines(label, v) ==
    IF v = <<>> THEN <<"d", "t", "y", "p", "e", ":", " ", "o", "b", "j", "e", "c", "t">>
    ELSE label \o <<" ", " ", " ", " ">>
         \o (CASE v[1].t = "str" -> v[1].s
               [] v[1].t = "num" -> Decimal(v[1].n)
               [] OTHER -> <<"N", "a", "N">>)
         \o <<"\n">> \o SeriesLines(label, Tail(v))

PyStr(x) ==
    CASE x.t = "nan" -> <<"n", "a", "n">>
      [] x.t = "none" -> <<"N", "o", "n", "e">>
      [] x.t = "str" -> x.s
      [] x.t = "num" -> Decimal(x.n)
      [] x.t = "series" -> SeriesLines(x.s, x.v)

\* ------------------------------------------------ aggregate_portfolio.py

f_Name == <<"N", "a", "m", "e">>
f_ISIN == <<"I", "S", "I", "N">>
f_Rating == <<"R", "a", "t", "i", "n", "g">>
f_Quantity == <<"Q", "u", "a", "n", "t", "i", "t", "y">>
f_MarketValue == <<"M", "a", "r", "k", "e", "t", "V", "a", "l", "u", "e">>
f_PctAssets == <<"P", "c", "t", "A", "s", "s", "e", "t", "s">>

\* COLUMN_MAPPING.values()
CanonicalFields == {f_Name, f_ISIN, f_Rating, f_Quantity, f_MarketValue, f_PctAssets}

\* normalize_header: the text returned for a column label (a cell value)
normalize_header(header) ==
    IF header.t # "str" THEN <<>>
    ELSE LET h == Strip(ReplaceNewline(Lower(header.s)))
         IN  IF Contains(h, <<"i", "n", "s", "t", "r", "u", "m", "e", "n", "t">>) THEN f_Name
             ELSE IF Contains(h, <<"i", "s", "i", "n">>) THEN f_ISIN
             ELSE IF Contains(h, <<"i", "n", "d", "u", "s", "t", "r", "y">>)
                     \/ Contains(h, <<"r", "a", "t", "i", "n", "g">>) THEN f_Rating
             ELSE IF Contains(h, <<"q", "u", "a", "n", "t", "i", "t", "y">>) THEN f_Quantity
             ELSE IF Contains(h, <<"m", "a", "r", "k", "e", "t", " ", "v", "a", "l", "u", "e">>)
                     \/ Contains(h, <<"r", "s", ".", " ", "i", "n", " ", "l", "a", "k", "h", "s">>)
                  THEN f_MarketValue
             ELSE IF Contains(h, <<"%", " ", "t", "o", " ", "n", "e", "t", " ", "a", "s", "s", "e", "t", "s">>)
                     \/ Contains(h, <<"p", "e", "r", "c", "e", "n", "t", "a", "g", "e">>)
                     \/ Contains(h, <<"%">>) THEN f_PctAssets
             ELSE header.s

\* Header discovery (the loop over df_raw): the index of the first row with a cell
\* whose lower-cased text contains "isin" and a cell whose text contains "quantity";
\* 0 stands for header_row_idx == -1.
RowHas(row, sub) == \E j \in 1..Len(row) : Contains(Lower(PyStr(row[j])), sub)

IsHeaderRow(row) ==
    RowHas(row, <<"i", "s", "i", "n">>) /\ RowHas(row, <<"q", "u", "a", "n", "t", "i", "t", "y">>)

FindHeaderRow(g) ==
    IF \E k \in 1..Len(g) : IsHeaderRow(g[k])
    THEN CHOOSE k \in 1..Len(g) : IsHeaderRow(g[k]) /\ \A m \in 1..(k - 1) : ~IsHeaderRow(g[m])
    ELSE 0

\* pd.read_excel(header=header_row_idx): the column labels pandas builds from the
\* header row.  An empty cell is labelled "Unnamed: <j>", a repeated text gets the
\* suffix ".<count>".
PandasLabels(hrow) ==
    [j \in 1..Len(hrow) |->
        IF hrow[j].t = "nan"
        THEN Str(<<"U", "n", "n", "a", "m", "e", "d", ":", " ">> \o Decimal(j - 1))
        ELSE LET before == Cardinality({m \in 1..(j - 1) : hrow[m] = hrow[j]})
             IN  IF before = 0 \/ hrow[j].t # "str" THEN hrow[j]
                 ELSE Str(hrow[j].s \o <<".">> \o Decimal(before))]

\* The rename loop: a label whose normalized text is a canonical field is renamed to
\* it, every other label is kept.
RenameColumns(labels) ==
    [j \in 1..Len(labels) |->
        LET cleaned == normalize_header(labels[j])
        IN  IF cleaned \in CanonicalFields THEN Str(cleaned) ELSE labels[j]]

\* row.get(field, default) on a row of a frame with the given column labels
RowGet(cols, row, field, default) ==
    LET hits == {j \in 1..Len(cols) : cols[j] = Str(field)}
    IN  IF hits = {} THEN default
        ELSE IF Cardinality(hits) = 1 THEN row[CHOOSE j \in hits : TRUE]
        ELSE Series(field, [k \in 1..Cardinality(hits) |->
                row[CHOOSE j \in hits : Cardinality({m \in hits : m < j}) = k - 1]])

\* " ".join([str(x) for x in row.values])
RECURSIVE JoinRow(_)
JoinRow(row) ==
    IF row = <<>> THEN <<>>
    ELSE IF Len(row) = 1 THEN PyStr(row[1])
    ELSE PyStr(row[1]) \o <<" ">> \o JoinRow(Tail(row))

\* ContentLower that always joins all the cells of the row
ContentLowerAllCells(cols, row) == SplitJoin(Lower(JoinRow(row)))

\* content_lower of a data row
ContentLower(cols, row) ==
    LET name == PyStr(RowGet(cols, row, f_Name, Str(<<>>)))
        content_check == IF name = <<>> \/ Lower(name) = <<"n", "a", "n">> THEN JoinRow(row) ELSE name
    IN  SplitJoin(Lower(content_check))

stop_markers ==
    << <<"A", "r", "b", "i", "t", "r", "a", "g", "e">>, <<"S", "u", "b", " ", "T", "o", "t", "a", "l">>,
       <<"T", "o", "t", "a", "l">>, <<"D", "e", "b", "t">>, <<"C", "a", "s", "h">>,
       <<"G", "r", "a", "n", "d", " ", "T", "o", "t", "a", "l">> >>

IsStartRow(content_lower) ==
    Contains(content_lower, <<"(", "a", ")", " ", "l", "i", "s", "t", "e", "d">>)
    /\ Contains(content_lower, <<"s", "t", "o", "c", "k">>)

IsStopRow(content_lower) ==
    \E k \in 1..Len(stop_markers) : Contains(content_lower, Lower(stop_markers[k]))

\* HasIsin without the strip() test
HasIsinNoStrip(isin) == NotNa(isin) /\ Lower(PyStr(isin)) # <<"n", "a", "n">>

\* pd.notna(isin) and str(isin).strip() != '' and str(isin).lower() != 'nan'
HasIsin(isin) ==
    NotNa(isin) /\ Strip(PyStr(isin)) # <<>> /\ Lower(PyStr(isin)) # <<"n", "a", "n">>

\* ScanRow without the `continue` after the start marker
ScanRowNoContinue(cols, st, row) ==
    LET content_lower == ContentLower(cols, row)
        isin == RowGet(cols, row, f_ISIN, None)
        st1 == IF IsStartRow(content_lower) THEN [st EXCEPT !.capturing = TRUE] ELSE st
    IN  IF ~st1.capturing THEN st1
        ELSE IF IsStopRow(content_lower) THEN [st1 EXCEPT !.capturing = FALSE, !.at = "break"]
        ELSE IF isin.t = "series" THEN [st1 EXCEPT !.at = "raise"]
        ELSE IF HasIsin(isin) THEN [st1 EXCEPT !.filtered_rows = Append(@, row)]
        ELSE st1

\* One iteration of the loop over df.iterrows().  The scan state is
\*   [capturing, at, filtered_rows]  with `at` the position of the loop:
\*   "loop" running, "break" left by the stop marker, "raise" left by an exception.
\* Testing the truth of pd.notna(<Series>) raises ValueError.
ScanRow(cols, st, row) ==
    LET content_lower == ContentLower(cols, row)
        isin == RowGet(cols, row, f_ISIN, None)
    IN  IF IsStartRow(content_lower) THEN [st EXCEPT !.capturing = TRUE]
        ELSE IF ~st.capturing THEN st
        ELSE IF IsStopRow(content_lower) THEN [st EXCEPT !.capturing = FALSE, !.at = "break"]
        ELSE IF isin.t = "series" THEN [st EXCEPT !.at = "raise"]
        ELSE IF HasIsin(isin) THEN [st EXCEPT !.filtered_rows = Append(@, row)]
        ELSE st

ScanInit == [capturing |-> FALSE, at |-> "loop", filtered_rows |-> <<>>]

RECURSIVE ScanRows(_, _, _)
ScanRows(cols, st, rows) ==
    IF rows = <<>> \/ st.at # "loop" THEN st
    ELSE ScanRows(cols, ScanRow(cols, st, rows[1]), Tail(rows))

\* What read_portfolio_file returns: None, or the frame of the captured rows.
\* pd.DataFrame([]) has no columns.  pd.DataFrame(<list of rows>) aligns the rows on
\* their labels and raises when a label occurs twice (the index is not unique); the
\* except clause turns that into None.
NoFrame == [ok |-> FALSE, columns |-> <<>>, rows |-> <<>>]

HasDuplicate(cols) == \E a, b \in 1..Len(cols) : a < b /\ cols[a] = cols[b]

Frame(cols, rows) ==
    IF rows = <<>> THEN [ok |-> TRUE, columns |-> <<>>, rows |-> <<>>]
    ELSE IF HasDuplicate(cols) THEN NoFrame
    ELSE [ok |-> TRUE, columns |-> cols, rows |-> rows]

ReturnOf(cols, st) == IF st.at = "raise" THEN NoFrame ELSE Frame(cols, st.filtered_rows)

read_portfolio_file(g) ==
    LET hdr == FindHeaderRow(g)
    IN  IF hdr = 0 THEN NoFrame
        ELSE LET cols == RenameColumns(PandasLabels(g[hdr]))
             IN  ReturnOf(cols, ScanRows(cols, ScanInit, SubSeq(g, hdr + 1, Len(g))))

\* ---------------------------------------------------------- main: merge

\* An entry of the insertion-ordered dict `portfolio`:
\*   [isin, Name, Rating, Months]  with Months a function from labels to metrics.
NoMonths == [m \in {} |-> None]

IndexOf(pf, isin) ==
    IF \E k \in 1..Len(pf) : pf[k].isin = isin
    THEN CHOOSE k \in 1..Len(pf) : pf[k].isin = isin
    ELSE 0

\* Python truth value of a scalar:  not x
Falsy(x) ==
    CASE x.t = "none" -> TRUE
      [] x.t = "nan" -> FALSE
      [] x.t = "str" -> x.s = <<>>
      [] x.t = "num" -> x.n = 0
      [] OTHER -> FALSE

\* `not portfolio[isin]['Name'] and pd.notna(row.get('Name'))` raises ValueError when
\* a Series has to be tested for truth.
NameTestRaises(cur, new) == cur.t = "series" \/ (Falsy(cur) /\ new.t = "series")

\* MergeRow with the Name overwritten by every record that carries one
MergeRowLastWins(ms, cols, row, fname) ==
    LET isin == Strip(PyStr(RowGet(cols, row, f_ISIN, None)))
        name == RowGet(cols, row, f_Name, None)
        pf0 == ms.portfolio
        pf1 == IF IndexOf(pf0, isin) = 0
               THEN Append(pf0, [isin |-> isin, Name |-> name,
                                 Rating |-> RowGet(cols, row, f_Rating, None),
                                 Months |-> NoMonths])
               ELSE pf0
        k == IndexOf(pf1, isin)
        pf2 == IF NotNa(name)
               THEN [pf1 EXCEPT ![k].Name = name]
               ELSE pf1
        metrics == [Quantity |-> RowGet(cols, row, f_Quantity, None),
                    MarketValue |-> RowGet(cols, row, f_MarketValue, None),
                    PctAssets |-> RowGet(cols, row, f_PctAssets, None)]
        months == [m \in (DOMAIN pf2[k].Months) \cup {fname} |->
                      IF m = fname THEN metrics ELSE pf2[k].Months[m]]
    IN  IF NameTestRaises(pf1[k].Name, name)
        THEN [portfolio |-> pf1, raised |-> TRUE]
        ELSE [portfolio |-> [pf2 EXCEPT ![k].Months = months], raised |-> FALSE]

\* MergeRow that keeps the metrics already stored for the period
MergeRowKeepFirst(ms, cols, row, fname) ==
    LET isin == Strip(PyStr(RowGet(cols, row, f_ISIN, None)))
        name == RowGet(cols, row, f_Name, None)
        pf0 == ms.portfolio
        pf1 == IF IndexOf(pf0, isin) = 0
               THEN Append(pf0, [isin |-> isin, Name |-> name,
                                 Rating |-> RowGet(cols, row, f_Rating, None),
                                 Months |-> NoMonths])
               ELSE pf0
        k == IndexOf(pf1, isin)
        pf2 == IF Falsy(pf1[k].Name) /\ NotNa(name)
               THEN [pf1 EXCEPT ![k].Name = name]
               ELSE pf1
        metrics == [Quantity |-> RowGet(cols, row, f_Quantity, None),
                    MarketValue |-> RowGet(cols, row, f_MarketValue, None),
                    PctAssets |-> RowGet(cols, row, f_PctAssets, None)]
        months == [m \in (DOMAIN pf2[k].Months) \cup {fname} |->
                      IF m \in DOMAIN pf2[k].Months THEN pf2[k].Months[m] ELSE metrics]
    IN  IF NameTestRaises(pf1[k].Name, name)
        THEN [portfolio |-> pf1, raised |-> TRUE]
        ELSE [portfolio |-> [pf2 EXCEPT ![k].Months = months], raised |-> FALSE]

\* MergeRow that takes an existing entry out of the mapping and puts it back at the end
MergeRowMoveToEnd(ms, cols, row, fname) ==
    LET isin == Strip(PyStr(RowGet(cols, row, f_ISIN, None)))
        name == RowGet(cols, row, f_Name, None)
        pf0 == ms.portfolio
        NotThis(e) == e.isin # isin
        pf1 == IF IndexOf(pf0, isin) = 0
               THEN Append(pf0, [isin |-> isin, Name |-> name,
                                 Rating |-> RowGet(cols, row, f_Rating, None),
                                 Months |-> NoMonths])
               ELSE Append(SelectSeq(pf0, NotThis), pf0[IndexOf(pf0, isin)])
        k == IndexOf(pf1, isin)
        pf2 == IF Falsy(pf1[k].Name) /\ NotNa(name)
               THEN [pf1 EXCEPT ![k].Name = name]
               ELSE pf1
        metrics == [Quantity |-> RowGet(cols, row, f_Quantity, None),
                    MarketValue |-> RowGet(cols, row, f_MarketValue, None),
                    PctAssets |-> RowGet(cols, row, f_PctAssets, None)]
        months == [m \in (DOMAIN pf2[k].Months) \cup {fname} |->
                      IF m = fname THEN metrics ELSE pf2[k].Months[m]]
    IN  IF NameTestRaises(pf1[k].Name, name)
        THEN [portfolio |-> pf1, raised |-> TRUE]
        ELSE [portfolio |-> [pf2 EXCEPT ![k].Months = months], raised |-> FALSE]

\* MergeRow that starts the Months of an entry afresh with every record
MergeRowResetMonths(ms, cols, row, fname) ==
    LET isin == Strip(PyStr(RowGet(cols, row, f_ISIN, None)))
        name == RowGet(cols, row, f_Name, None)
        pf0 == ms.portfolio
        pf1 == IF IndexOf(pf0, isin) = 0
               THEN Append(pf0, [isin |-> isin, Name |-> name,
                                 Rating |-> RowGet(cols, row, f_Rating, None),
                                 Months |-> NoMonths])
               ELSE pf0
        k == IndexOf(pf1, isin)
        pf2 == IF Falsy(pf1[k].Name) /\ NotNa(name)
               THEN [pf1 EXCEPT ![k].Name = name]
               ELSE pf1
        metrics == [Quantity |-> RowGet(cols, row, f_Quantity, None),
                    MarketValue |-> RowGet(cols, row, f_MarketValue, None),
                    PctAssets |-> RowGet(cols, row, f_PctAssets, None)]
        months == [m \in {fname} |-> metrics]
    IN  IF NameTestRaises(pf1[k].Name, name)
        THEN [portfolio |-> pf1, raised |-> TRUE]
        ELSE [portfolio |-> [pf2 EXCEPT ![k].Months = months], raised |-> FALSE]

\* MergeRow that adds a number to the number already stored for the period
MergeRowSumsPeriod(ms, cols, row, fname) ==
    LET isin == Strip(PyStr(RowGet(cols, row, f_ISIN, None)))
        name == RowGet(cols, row, f_Name, None)
        pf0 == ms.portfolio
        pf1 == IF IndexOf(pf0, isin) = 0
               THEN Append(pf0, [isin |-> isin, Name |-> name,
                                 Rating |-> RowGet(cols, row, f_Rating, None),
                                 Months |-> NoMonths])
               ELSE pf0
        k == IndexOf(pf1, isin)
        pf2 == IF Falsy(pf1[k].Name) /\ NotNa(name)
               THEN [pf1 EXCEPT ![k].Name = name]
               ELSE pf1
        metrics == [Quantity |-> RowGet(cols, row, f_Quantity, None),
                    MarketValue |-> RowGet(cols, row, f_MarketValue, None),
                    PctAssets |-> RowGet(cols, row, f_PctAssets, None)]
        summed == [key \in DOMAIN metrics |->
                      IF fname \in DOMAIN pf2[k].Months
                         /\ pf2[k].Months[fname][key].t = "num" /\ metrics[key].t = "num"
                      THEN Num(pf2[k].Months[fname][key].n + metrics[key].n)
                      ELSE metrics[key]]
        months == [m \in (DOMAIN pf2[k].Months) \cup {fname} |->
                      IF m = fname THEN summed ELSE pf2[k].Months[m]]
    IN  IF NameTestRaises(pf1[k].Name, name)
        THEN [portfolio |-> pf1, raised |-> TRUE]
        ELSE [portfolio |-> [pf2 EXCEPT ![k].Months = months], raised |-> FALSE]

\* One iteration of the loop over df.iterrows() in main.
\* The state is [portfolio, raised].
MergeRow(ms, cols, row, fname) ==
    LET isin == Strip(PyStr(RowGet(cols, row, f_ISIN, None)))
        name == RowGet(cols, row, f_Name, None)
        pf0 == ms.portfolio
        pf1 == IF IndexOf(pf0, isin) = 0
               THEN Append(pf0, [isin |-> isin, Name |-> name,
                                 Rating |-> RowGet(cols, row, f_Rating, None),
                                 Months |-> NoMonths])
               ELSE pf0
        k == IndexOf(pf1, isin)
        pf2 == IF Falsy(pf1[k].Name) /\ NotNa(name)
               THEN [pf1 EXCEPT ![k].Name = name]
               ELSE pf1
        metrics == [Quantity |-> RowGet(cols, row, f_Quantity, None),
                    MarketValue |-> RowGet(cols, row, f_MarketValue, None),
                    PctAssets |-> RowGet(cols, row, f_PctAssets, None)]
        months == [m \in (DOMAIN pf2[k].Months) \cup {fname} |->
                      IF m = fname THEN metrics ELSE pf2[k].Months[m]]
    IN  IF NameTestRaises(pf1[k].Name, name)
        THEN [portfolio |-> pf1, raised |-> TRUE]
        ELSE [portfolio |-> [pf2 EXCEPT ![k].Months = months], raised |-> FALSE]

RECURSIVE MergeRows(_, _, _, _)
MergeRows(ms, cols, rows, fname) ==
    IF rows = <<>> \/ ms.raised THEN ms
    ELSE MergeRows(MergeRow(ms, cols, rows[1], fname), cols, Tail(rows), fname)

\* MergeFile without the `if df is None: continue`: iterating None raises
MergeFileNoSkip(pf, frame, fname) ==
    IF ~frame.ok THEN [portfolio |-> pf, raised |-> TRUE]
    ELSE MergeRows([portfolio |-> pf, raised |-> FALSE], frame.columns, frame.rows, fname)

\* The body of `for f in files` after all_months.add(fname)
MergeFile(pf, frame, fname) ==
    IF ~frame.ok THEN [portfolio |-> pf, raised |-> FALSE]
    ELSE MergeRows([portfolio |-> pf, raised |-> FALSE], frame.columns, frame.rows, fname)

\* ----------------------------------------------------- main: period sort

month_order ==
    << <<"J", "a", "n", "u", "a", "r", "y">>, <<"F", "e", "b", "r", "u", "a", "r", "y">>,
       <<"M", "a", "r", "c", "h">>, <<"A", "p", "r", "i", "l">>, <<"M", "a", "y">>,
       <<"J", "u", "n", "e">>, <<"J", "u", "l", "y">>, <<"A", "u", "g", "u", "s", "t">>,
       <<"S", "e", "p", "t", "e", "m", "b", "e", "r">>, <<"O", "c", "t", "o", "b", "e", "r">>,
       <<"N", "o", "v", "e", "m", "b", "e", "r">>, <<"D", "e", "c", "e", "m", "b", "e", "r">> >>

SentinelYear == 9999
SentinelMonth == 99

\* m_str.split('_')
RECURSIVE SplitUnderscore(_)
SplitUnderscore(s) ==
    IF \E k \in 1..Len(s) : s[k] = "_"
    THEN LET k == CHOOSE a \in 1..Len(s) : s[a] = "_" /\ \A b \in 1..(a - 1) : s[b] # "_"
         IN  <<SubSeq(s, 1, k - 1)>> \o SplitUnderscore(SubSeq(s, k + 1, Len(s)))
    ELSE <<s>>

\* sort_months_key: <<year, month index>>; unpacking a split of more or fewer than
\* two parts raises and the except clause returns the sentinel pair.
sort_months_key(m_str) ==
    LET parts == SplitUnderscore(m_str)
    IN  IF Len(parts) = 2
        THEN << IF IsDigit(parts[2]) THEN IntOf(parts[2]) ELSE SentinelYear,
                IF \E k \in 1..12 : month_order[k] = parts[1]
                THEN (CHOOSE k \in 1..12 : month_order[k] = parts[1]) - 1
                ELSE SentinelMonth >>
        ELSE <<SentinelYear, SentinelMonth>>

\* tuple comparison of two keys
KeyLeq(a, b) == a[1] < b[1] \/ (a[1] = b[1] /\ a[2] <= b[2])

\* sorted(list(all_months), key=sort_months_key): the sort is stable, and the order
\* in which a set of strings is listed is not fixed by the program (it follows the
\* per-process string hashes), so every key-ordered arrangement can come out.
Arrangements(S) ==
    {p \in [1..Cardinality(S) -> S] : \A a, b \in 1..Cardinality(S) : a # b => p[a] # p[b]}

SortedMonths(S) ==
    {p \in Arrangements(S) :
        \A a, b \in 1..Cardinality(S) : a < b => KeyLeq(sort_months_key(p[a]), sort_months_key(p[b]))}

\* --------------------------------------------------- main: report matrix

\* float(raw_val): [ok, val]; float(None), float(<Series>) and float of a text that
\* is no number raise.  float('nan') and float(NaN) are NaN.
FloatOf(x) ==
    CASE x.t = "num" -> [ok |-> TRUE, val |-> x]
      [] x.t = "nan" -> [ok |-> TRUE, val |-> NaN]
      [] x.t = "str" ->
            LET s == Strip(x.s)
            IN  IF IsDigit(s) THEN [ok |-> TRUE, val |-> Num(IntOf(s))]
                ELSE IF Lower(s) = <<"n", "a", "n">> THEN [ok |-> TRUE, val |-> NaN]
                ELSE [ok |-> FALSE, val |-> None]
      [] OTHER -> [ok |-> FALSE, val |-> None]

\* write_val: v_float, the value added to the column total
VFloat(raw_val) == IF FloatOf(raw_val).ok THEN FloatOf(raw_val).val ELSE Num(0)

\* WrittenCell with 0.0 written for a missing value
WrittenCellZero(raw_val) == VFloat(raw_val)

\* write_val: the value given to ws.cell
WrittenCell(raw_val) == IF raw_val.t # "none" THEN VFloat(raw_val) ELSE None

\* float addition: NaN absorbs
AddFloat(a, b) == IF a.t = "nan" \/ b.t = "nan" THEN NaN ELSE Num(a.n + b.n)

MetricKeys == <<"Quantity", "MarketValue", "PctAssets">>

\* data['Months'].get(m, {}).get(key)
NodeOf(entry, m, key) == IF m \in DOMAIN entry.Months THEN entry.Months[m][key] ELSE None

\* column c >= 4 of the sheet belongs to month (c - 4) \div 3 + 1 and metric (c - 4) % 3 + 1
RawAt(entry, months, c) == NodeOf(entry, months[((c - 4) \div 3) + 1], MetricKeys[((c - 4) % 3) + 1])

Width(months) == 3 + 3 * Len(months)

TitleRow(months) ==
    [c \in 1..Width(months) |->
        IF c = 1 THEN Str(<<"P", "P", "F", "A", "S", " ", "F", "l", "e", "x", "i", " ", "c", "a", "p", " ", "F", "u", "n", "d">>)
        ELSE None]

MonthRow(months) ==
    [c \in 1..Width(months) |->
        CASE c = 1 -> Str(<<"N", "a", "m", "e", " ", "o", "f", " ", "t", "h", "e", " ", "I", "n", "s", "t", "r", "u", "m", "e", "n", "t">>)
          [] c = 2 -> Str(<<"I", "S", "I", "N">>)
          [] c = 3 -> Str(<<"I", "n", "d", "u", "s", "t", "r", "y", "/", "R", "a", "t", "i", "n", "g">>)
          [] OTHER -> IF (c - 4) % 3 = 0 THEN Str(months[((c - 4) \div 3) + 1]) ELSE None]

SubHeaderRow(months) ==
    [c \in 1..Width(months) |->
        CASE c <= 3 -> None
          [] c > 3 /\ (c - 4) % 3 = 0 -> Str(<<"Q", "u", "a", "n", "t", "i", "t", "y">>)
          [] c > 3 /\ (c - 4) % 3 = 1 -> Str(<<"M", "a", "r", "k", "e", "t", " ", "V", "a", "l", "u", "e", " ", "(", "R", "s", ".", " ", "L", "a", "k", "h", "s", ")">>)
          [] OTHER -> Str(<<"%", " ", "N", "e", "t", " ", "A", "s", "s", "e", "t", "s">>)]

\* One data row of the sheet (rows 4..N)
DataRow(entry, months) ==
    [c \in 1..Width(months) |->
        CASE c = 1 -> entry.Name
          [] c = 2 -> Str(entry.isin)
          [] c = 3 -> entry.Rating
          [] OTHER -> WrittenCell(RawAt(entry, months, c))]

\* column_totals after the data rows: 0.0 plus v_float of every row, in row order
RECURSIVE ColumnTotal(_, _, _)
ColumnTotal(pf, months, c) ==
    IF pf = <<>> THEN Num(0)
    ELSE AddFloat(ColumnTotal(SubSeq(pf, 1, Len(pf) - 1), months, c),
                  VFloat(RawAt(pf[Len(pf)], months, c)))

TotalRow(pf, months) ==
    [c \in 1..Width(months) |->
        CASE c = 1 -> Str(<<"T", "o", "t", "a", "l">>)
          [] c \in {2, 3} -> None
          [] OTHER -> ColumnTotal(pf, months, c)]

\* openpyxl refuses a value that is no scalar: ws.cell(row, col, <Series>) raises
CellRaises(pf) == \E k \in 1..Len(pf) : pf[k].Name.t = "series" \/ pf[k].Rating.t = "series"

\* The sheet as written by main: title, month headers, sub-headers, data rows, totals
Sheet(pf, months) ==
    <<TitleRow(months), MonthRow(months), SubHeaderRow(months)>>
    \o [k \in 1..Len(pf) |-> DataRow(pf[k], months)]
    \o <<TotalRow(pf, months)>>

\* ------------------------------------------------ app.py: read_portfolio_data

\* pandas reading a cell of the saved sheet: an empty cell, a NaN and a text that is
\* one of the default missing-value markers come back as NaN
NaTexts == { <<>>, <<"n", "a", "n">>, <<"N", "a", "N">>, <<"N", "A">>, <<"N", "/", "A">>,
             <<"n", "u", "l", "l">>, <<"N", "U", "L", "L">> }

ReadCell(c) ==
    IF c.t \in {"none", "nan"} \/ (c.t = "str" /\ c.s \in NaTexts) THEN NaN ELSE c

\* months: every third cell of sheet row 2 from index 3 (0-based), NaN skipped
RECURSIVE ReadMonths(_, _)
ReadMonths(month_row, i) ==
    IF i > Len(month_row) THEN <<>>
    ELSE (IF NotNa(ReadCell(month_row[i])) THEN <<ReadCell(month_row[i])>> ELSE <<>>)
         \o ReadMonths(month_row, i + 3)

\* clean_meta
clean_meta(val) ==
    IF ~NotNa(val) \/ Lower(PyStr(val)) = <<"n", "a", "n">> THEN <<>> ELSE PyStr(val)

\* clean
clean(val) ==
    IF ~NotNa(val) \/ val = Str(<<>>) THEN Num(0)
    ELSE IF FloatOf(val).ok THEN FloatOf(val).val ELSE Num(0)

\* ReadRecord with the Quantity read from the Value column
ReadRecordShifted(row, months) ==
    [Name |-> ReadCell(row[1]),
     ISIN |-> clean_meta(ReadCell(row[2])),
     Rating |-> clean_meta(ReadCell(row[3])),
     Months |-> [k \in 1..Len(months) |->
                    [month |-> months[k],
                     Quantity |-> clean(ReadCell(row[3 * k + 2])),
                     Value |-> clean(ReadCell(row[3 * k + 2])),
                     Pct |-> clean(ReadCell(row[3 * k + 3]))]]]

\* the record built from one sheet row; col_idx advances by 3 per listed month
ReadRecord(row, months) ==
    [Name |-> ReadCell(row[1]),
     ISIN |-> clean_meta(ReadCell(row[2])),
     Rating |-> clean_meta(ReadCell(row[3])),
     Months |-> [k \in 1..Len(months) |->
                    [month |-> months[k],
                     Quantity |-> clean(ReadCell(row[3 * k + 1])),
                     Value |-> clean(ReadCell(row[3 * k + 2])),
                     Pct |-> clean(ReadCell(row[3 * k + 3]))]]]

\* rows whose first cell is NaN (or prints as "nan") are skipped
RowSkipped(row) ==
    ~NotNa(ReadCell(row[1])) \/ Lower(PyStr(ReadCell(row[1]))) = <<"n", "a", "n">>

RECURSIVE ReadRecords(_, _)
ReadRecords(rows, months) ==
    IF rows = <<>> THEN <<>>
    ELSE (IF RowSkipped(rows[1]) THEN <<>> ELSE <<ReadRecord(rows[1], months)>>)
         \o ReadRecords(Tail(rows), months)

\* read_portfolio_data on the saved sheet: skiprows=3 for the data, row 2 for the months
read_portfolio_data(sheet) ==
    LET months == ReadMonths(sheet[2], 4)
    IN  [months |-> months, records |-> ReadRecords(SubSeq(sheet, 4, Len(sheet)), months)]

\* ----------------------------------------------------------------- inputs

\* Bounds of the model
MaxFiles == 2
MaxRows == 3

\* Texts of the input files: header wordings, the section start marker (the text of
\* the variable start_marker), data cells, and file labels
h_Name == <<"N", "a", "m", "e", " ", "o", "f", " ", "t", "h", "e", " ", "I", "n", "s", "t", "r", "u", "m", "e", "n", "t">>
h_ISIN == <<"I", "S", "I", "N">>
h_Rating == <<"I", "n", "d", "u", "s", "t", "r", "y", "/", "R", "a", "t", "i", "n", "g">>
h_Quantity == <<"Q", "u", "a", "n", "t", "i", "t", "y">>
h_MarketValue == <<"M", "a", "r", "k", "e", "t", " ", "v", "a", "l", "u", "e", "(", "R", "s", ".", " ", "i", "n", " ", "L", "a", "k", "h", "s", ")">>
h_PctAssets == <<"%", " ", "t", "o", " ", "N", "e", "t", " ", "A", "s", "s", "e", "t", "s">>
h_IsinOfInstrument == <<"I", "S", "I", "N", " ", "o", "f", " ", "I", "n", "s", "t", "r", "u", "m", "e", "n", "t">>
start_marker == <<"(", "a", ")", " ", "L", "i", "s", "t", "e", "d", " ", "/", " ", "a", "w", "a", "i", "t", "i", "n", "g", " ", "l", "i", "s", "t", "i", "n", "g", " ", "o", "n", " ", "S", "t", "o", "c", "k", " ", "E", "x", "c", "h", "a", "n", "g", "e", "s">>
t_title == <<"P", "o", "r", "t", "f", "o", "l", "i", "o", " ", "S", "t", "a", "t", "e", "m", "e", "n", "t">>
t_SubTotal == <<"S", "u", "b", " ", "T", "o", "t", "a", "l">>
t_Acme == <<"A", "c", "m", "e">>
t_Beta == <<"B", "e", "t", "a">>
t_Apex == <<"A", "p", "e", "x">>
t_INE1 == <<"I", "N", "E", "1">>
t_INE2 == <<"I", "N", "E", "2">>
t_IT == <<"I", "T">>
t_Bank == <<"B", "a", "n", "k">>
t_NIL == <<"N", "I", "L">>
t_blank == <<" ", " ">>
t_Cash == <<"C", "a", "s", "h">>
January_2025 == <<"J", "a", "n", "u", "a", "r", "y", "_", "2", "0", "2", "5">>
January_2026 == <<"J", "a", "n", "u", "a", "r", "y", "_", "2", "0", "2", "6">>
Foo_2025 == <<"F", "o", "o", "_", "2", "0", "2", "5">>
Feb_Bad == <<"F", "e", "b", "_", "B", "a", "d">>
January_x == <<"J", "a", "n", "u", "a", "r", "y", "_", "x">>
Misc == <<"M", "i", "s", "c">>

\* Header rows (five columns)
hdr_std == <<Str(h_Name), Str(h_ISIN), Str(h_Rating), Str(h_Quantity), Str(h_MarketValue)>>
hdr_noname == <<NaN, Str(h_ISIN), Str(h_Rating), Str(h_Quantity), Str(h_PctAssets)>>
hdr_noisin == <<Str(h_IsinOfInstrument), NaN, Str(h_Rating), Str(h_Quantity), Str(h_PctAssets)>>
hdr_dupisin == <<Str(h_Name), Str(h_ISIN), Str(h_ISIN), Str(h_Quantity), Str(h_MarketValue)>>
hdr_dupname == <<Str(h_Name), Str(h_Name), Str(h_ISIN), Str(h_Quantity), Str(h_MarketValue)>>

\* Other rows
row_title == <<Str(t_title), NaN, NaN, NaN, NaN>>
row_start == <<Str(start_marker), NaN, NaN, NaN, NaN>>
row_start_isin == <<Str(start_marker), Str(t_INE2), NaN, Num(10), Num(5)>>
row_total == <<Str(t_SubTotal), NaN, NaN, Num(110), Num(55)>>
row_acme == <<Str(t_Acme), Str(t_INE1), Str(t_IT), Num(100), Num(50)>>
row_noisin == <<Str(t_Beta), NaN, Str(t_IT), Num(10), Num(5)>>
row_blankisin == <<Str(t_Beta), Str(t_blank), Str(t_Bank), Num(10), NaN>>
row_anon1 == <<NaN, Str(t_INE1), NaN, Num(120), NaN>>
row_beta == <<Str(t_Beta), Str(t_INE2), Str(t_Bank), Num(10), Num(5)>>
row_apex == <<Str(t_Apex), Str(t_INE1), Str(t_Bank), Str(t_NIL), Num(7)>>
row_cash == <<Str(t_Beta), Str(t_INE2), Str(t_Cash), Num(10), Num(5)>>
row_two_names == <<Str(t_Acme), Str(t_Apex), Str(t_INE1), Num(100), Num(50)>>

\* The files of the extractor specification: a top (rows up to and including the
\* header row, or no header at all) followed by up to MaxRows data rows
Tops == { <<hdr_std>>, <<row_title, hdr_std>>, <<hdr_noname>>, <<hdr_noisin>>,
          <<hdr_dupisin>>, <<row_title>> }

DataRows == {row_start, row_start_isin, row_total, row_acme, row_noisin, row_blankisin, row_cash}

DataSeqs == UNION {[1..n -> DataRows] : n \in 0..MaxRows}

Grids == {top \o d : top \in Tops, d \in DataSeqs}

\* The files of the pipeline specification
Files ==
    { <<row_title, hdr_std, row_start, row_acme, row_total>>,
      <<hdr_std, row_start, row_anon1, row_beta>>,
      <<hdr_std, row_start, row_apex>>,
      <<hdr_std, row_start, row_acme, row_apex>>,
      <<row_title, row_start, row_acme>>,
      <<hdr_std, row_start, row_total, row_acme>>,
      <<hdr_noname, row_start, row_anon1>>,
      <<hdr_dupisin, row_start, row_acme>>,
      <<hdr_dupname, row_start, row_two_names>> }

Labels == {January_2025, January_2026, Foo_2025, Feb_Bad, January_x, Misc}

\* read_portfolio_file on each pipeline file
FrameOf == [g \in Files |-> read_portfolio_file(g)]

\* ------------------------------------------------------------------ state

VARIABLES
    pc,              \* main: "loop" in the loop over files, "saved" after wb.save,
                     \*       "served" after read_portfolio_data, "crashed" on an uncaught exception
    files,           \* labels of the files processed so far, in discovery order
    portfolio,       \* main: portfolio (insertion-ordered)
    all_months,      \* main: all_months
    fname,           \* main: fname of the file processed last
    grid,            \* the rows of the file read last (df_raw)
    df,              \* what read_portfolio_file returned last
    sorted_months,   \* main: sorted_months
    ws,              \* the saved sheet
    data,            \* what read_portfolio_data returned
    xpc,             \* read_portfolio_file: "idle", "header", "rows", "after", "returned"
    header_row_idx,  \* read_portfolio_file: header_row_idx (0 for -1)
    columns,         \* read_portfolio_file: df.columns after the rename
    idx,             \* read_portfolio_file: position of the loop over df.iterrows()
    capturing,       \* read_portfolio_file: capturing
    filtered_rows,   \* read_portfolio_file: filtered_rows
    npc,             \* normalize_header: "idle", "label" (a label is being prepared), "done"
    base,            \* the header wording the label is a variant of
    col,             \* read_portfolio_file: col, the label given to normalize_header
    edits,           \* number of changes made to the wording
    result           \* read_portfolio_file: cleaned, what normalize_header returned

vars == <<pc, files, portfolio, all_months, fname, grid, df, sorted_months, ws, data,
          xpc, header_row_idx, columns, idx, capturing, filtered_rows,
          npc, base, col, edits, result>>

mainVars == <<pc, files, portfolio, all_months, fname, sorted_months, ws, data>>
readVars == <<xpc, header_row_idx, columns, idx, capturing, filtered_rows>>
normVars == <<npc, base, col, edits, result>>

NoData == [months |-> <<>>, records |-> <<>>]

Init ==
    /\ pc = "loop"
    /\ files = <<>>
    /\ portfolio = <<>>
    /\ all_months = {}
    /\ fname = <<>>
    /\ grid = <<>>
    /\ df = NoFrame
    /\ sorted_months = <<>>
    /\ ws = <<>>
    /\ data = NoData
    /\ xpc = "idle"
    /\ header_row_idx = 0
    /\ columns = <<>>
    /\ idx = 0
    /\ capturing = FALSE
    /\ filtered_rows = <<>>
    /\ npc = "idle"
    /\ base = <<>>
    /\ col = <<>>
    /\ edits = 0
    /\ result = <<>>

\* ------------------------------------------------------- pipeline actions

\* ProcessFile with all_months.add(fname) placed after the `if df is None: continue`
ProcessFileAddAfterRead(label, g) ==
    /\ pc = "loop"
    /\ Len(files) < MaxFiles
    /\ files' = Append(files, label)
    /\ all_months' = IF FrameOf[g].ok THEN all_months \cup {label} ELSE all_months
    /\ fname' = label
    /\ grid' = g
    /\ df' = FrameOf[g]
    /\ LET ms == MergeFile(portfolio, FrameOf[g], label)
       IN  /\ portfolio' = ms.portfolio
           /\ pc' = IF ms.raised THEN "crashed" ELSE "loop"
    /\ UNCHANGED <<sorted_months, ws, data>>
    /\ UNCHANGED readVars
    /\ UNCHANGED normVars

\* One iteration of the loop over files: label, read, merge
ProcessFile(label, g) ==
    /\ pc = "loop"
    /\ Len(files) < MaxFiles
    /\ files' = Append(files, label)
    /\ all_months' = all_months \cup {label}
    /\ fname' = label
    /\ grid' = g
    /\ df' = FrameOf[g]
    /\ LET ms == MergeFile(portfolio, FrameOf[g], label)
       IN  /\ portfolio' = ms.portfolio
           /\ pc' = IF ms.raised THEN "crashed" ELSE "loop"
    /\ UNCHANGED <<sorted_months, ws, data>>
    /\ UNCHANGED readVars
    /\ UNCHANGED normVars

\* After the loop: sort the months, write the sheet with its totals row, save.
\* main returns before this when glob found no file.
BuildReport ==
    /\ pc = "loop"
    /\ files # <<>>
    /\ \E sm \in SortedMonths(all_months) :
          /\ sorted_months' = sm
          /\ IF CellRaises(portfolio)
             THEN pc' = "crashed" /\ ws' = ws
             ELSE pc' = "saved" /\ ws' = Sheet(portfolio, sm)
    /\ UNCHANGED <<files, portfolio, all_months, fname, grid, df, data>>
    /\ UNCHANGED readVars
    /\ UNCHANGED normVars

\* The web application reads the saved sheet back
ReadBack ==
    /\ pc = "saved"
    /\ data' = read_portfolio_data(ws)
    /\ pc' = "served"
    /\ UNCHANGED <<files, portfolio, all_months, fname, grid, df, sorted_months, ws>>
    /\ UNCHANGED readVars
    /\ UNCHANGED normVars

Next ==
    \/ \E label \in Labels, g \in Files : ProcessFile(label, g)
    \/ BuildReport
    \/ ReadBack

Spec == Init /\ [][Next]_vars

\* ------------------------------------------------------ extractor actions

\* read_portfolio_file step by step on one file of Grids
InitExtract ==
    /\ pc = "loop"
    /\ files = <<>>
    /\ portfolio = <<>>
    /\ all_months = {}
    /\ fname = <<>>
    /\ grid \in Grids
    /\ df = NoFrame
    /\ sorted_months = <<>>
    /\ ws = <<>>
    /\ data = NoData
    /\ xpc = "header"
    /\ header_row_idx = 0
    /\ columns = <<>>
    /\ idx = 0
    /\ capturing = FALSE
    /\ filtered_rows = <<>>
    /\ npc = "idle"
    /\ base = <<>>
    /\ col = <<>>
    /\ edits = 0
    /\ result = <<>>

\* Header discovery, reload with the header row, rename of the columns
FindHeader ==
    /\ xpc = "header"
    /\ header_row_idx' = FindHeaderRow(grid)
    /\ IF FindHeaderRow(grid) = 0
       THEN /\ xpc' = "returned"
            /\ UNCHANGED <<columns, idx>>
       ELSE /\ xpc' = "rows"
            /\ columns' = RenameColumns(PandasLabels(grid[FindHeaderRow(grid)]))
            /\ idx' = FindHeaderRow(grid) + 1
    /\ UNCHANGED <<df, capturing, filtered_rows, grid>>
    /\ UNCHANGED mainVars
    /\ UNCHANGED normVars

\* One iteration of the loop over the data rows; an exception returns None
NextRow ==
    /\ xpc = "rows"
    /\ idx <= Len(grid)
    /\ LET st == ScanRow(columns, [capturing |-> capturing, at |-> "loop",
                                   filtered_rows |-> filtered_rows], grid[idx])
       IN  /\ capturing' = st.capturing
           /\ filtered_rows' = st.filtered_rows
           /\ xpc' = CASE st.at = "break" -> "after"
                       [] st.at = "raise" -> "returned"
                       [] OTHER -> "rows"
           /\ df' = IF st.at = "raise" THEN ReturnOf(columns, st) ELSE df
           /\ idx' = IF st.at = "loop" THEN idx + 1 ELSE idx
    /\ UNCHANGED <<header_row_idx, columns, grid>>
    /\ UNCHANGED mainVars
    /\ UNCHANGED normVars

\* return pd.DataFrame(filtered_rows), at the end of the rows or after the break
Return ==
    /\ \/ xpc = "rows" /\ idx > Len(grid)
       \/ xpc = "after"
    /\ df' = Frame(columns, filtered_rows)
    /\ xpc' = "returned"
    /\ UNCHANGED <<header_row_idx, columns, idx, capturing, filtered_rows, grid>>
    /\ UNCHANGED mainVars
    /\ UNCHANGED normVars

NextExtract == FindHeader \/ NextRow \/ Return

SpecExtract == InitExtract /\ [][NextExtract]_vars


\* ------------------------------------------------------ normalizer actions

\* Bound of the model: changes made to a header wording
MaxEdits == 2

\* Header wordings given to normalize_header
h_MarketValueShort == <<"M", "a", "r", "k", "e", "t", " ", "v", "a", "l", "u", "e">>
h_RsInLakhs == <<"R", "s", ".", " ", "i", "n", " ", "L", "a", "k", "h", "s">>
h_RatingPct == <<"R", "a", "t", "i", "n", "g", " ", "%">>
h_QuantityPct == <<"%", " ", "Q", "u", "a", "n", "t", "i", "t", "y">>
h_Remarks == <<"R", "e", "m", "a", "r", "k", "s">>

Headers ==
    {h_ISIN, h_Quantity, h_MarketValueShort, h_RsInLakhs, h_PctAssets, h_IsinOfInstrument,
     h_RatingPct, h_QuantityPct, h_Remarks, f_Name, f_MarketValue, f_PctAssets}

\* str.swapcase() on one character
SwapCaseChar(c) ==
    IF \E k \in 1..26 : UpperCase[k] = c THEN LowerCase[CHOOSE k \in 1..26 : UpperCase[k] = c]
    ELSE IF \E k \in 1..26 : LowerCase[k] = c THEN UpperCase[CHOOSE k \in 1..26 : LowerCase[k] = c]
    ELSE c

\* position k of s holds a blank with a word before it and a word after it
InternalSpace(s, k) ==
    /\ k \in 1..Len(s)
    /\ s[k] = " "
    /\ \E a \in 1..(k - 1) : s[a] \notin Whitespace
    /\ \E b \in (k + 1)..Len(s) : s[b] \notin Whitespace

\* normalize_header on one column label, the label drawn from the wordings
InitNormalize ==
    /\ pc = "loop"
    /\ files = <<>>
    /\ portfolio = <<>>
    /\ all_months = {}
    /\ fname = <<>>
    /\ grid = <<>>
    /\ df = NoFrame
    /\ sorted_months = <<>>
    /\ ws = <<>>
    /\ data = NoData
    /\ xpc = "idle"
    /\ header_row_idx = 0
    /\ columns = <<>>
    /\ idx = 0
    /\ capturing = FALSE
    /\ filtered_rows = <<>>
    /\ npc = "label"
    /\ base \in Headers
    /\ col = base
    /\ edits = 0
    /\ result = <<>>

\* The sheet spells the wording with one letter in the other case
ChangeCase(k) ==
    /\ npc = "label"
    /\ edits < MaxEdits
    /\ k \in 1..Len(col)
    /\ SwapCaseChar(col[k]) # col[k]
    /\ col' = [col EXCEPT ![k] = SwapCaseChar(@)]
    /\ edits' = edits + 1
    /\ UNCHANGED <<npc, base, result>>
    /\ UNCHANGED mainVars
    /\ UNCHANGED <<grid, df>>
    /\ UNCHANGED readVars

\* The sheet breaks the line in place of a blank between two words
SpaceToNewline(k) ==
    /\ npc = "label"
    /\ edits < MaxEdits
    /\ InternalSpace(col, k)
    /\ col' = [col EXCEPT ![k] = "\n"]
    /\ edits' = edits + 1
    /\ UNCHANGED <<npc, base, result>>
    /\ UNCHANGED mainVars
    /\ UNCHANGED <<grid, df>>
    /\ UNCHANGED readVars

\* The sheet breaks the line before or after a blank between two words
InsertNewline(k, after) ==
    /\ npc = "label"
    /\ edits < MaxEdits
    /\ InternalSpace(col, k)
    /\ col' = IF after
              THEN SubSeq(col, 1, k) \o <<"\n">> \o SubSeq(col, k + 1, Len(col))
              ELSE SubSeq(col, 1, k - 1) \o <<"\n">> \o SubSeq(col, k, Len(col))
    /\ edits' = edits + 1
    /\ UNCHANGED <<npc, base, result>>
    /\ UNCHANGED mainVars
    /\ UNCHANGED <<grid, df>>
    /\ UNCHANGED readVars

\* The sheet has whitespace before or after the wording
Pad(c, after) ==
    /\ npc = "label"
    /\ edits < MaxEdits
    /\ c \in Whitespace
    /\ col' = IF after THEN col \o <<c>> ELSE <<c>> \o col
    /\ edits' = edits + 1
    /\ UNCHANGED <<npc, base, result>>
    /\ UNCHANGED mainVars
    /\ UNCHANGED <<grid, df>>
    /\ UNCHANGED readVars

\* cleaned = normalize_header(col)
Normalize ==
    /\ npc = "label"
    /\ result' = normalize_header(Str(col))
    /\ npc' = "done"
    /\ UNCHANGED <<base, col, edits>>
    /\ UNCHANGED mainVars
    /\ UNCHANGED <<grid, df>>
    /\ UNCHANGED readVars

NextNormalize ==
    \/ \E k \in 1..Len(col) : ChangeCase(k)
    \/ \E k \in 1..Len(col) : SpaceToNewline(k)
    \/ \E k \in 1..Len(col) : \E after \in BOOLEAN : InsertNewline(k, after)
    \/ \E c \in Whitespace, after \in BOOLEAN : Pad(c, after)
    \/ Normalize

SpecNormalize == InitNormalize /\ [][NextNormalize]_vars
\* ================================================================ claims

\* A cell that holds something: a number, or a text with a character that is not
\* whitespace
NonEmptyCell(c) ==
    \/ c.t = "num"
    \/ c.t = "str" /\ \E k \in 1..Len(c.s) : c.s[k] \notin Whitespace

\* The columns the column map gives to a field
FieldColumns(cols, field) == {j \in 1..Len(cols) : cols[j] = Str(field)}

\* The Identifier of a row under the column map: the cell of the leftmost column
\* mapped to ISIN, None when no column is
IdentifierOf(cols, row) ==
    IF FieldColumns(cols, f_ISIN) = {} THEN None
    ELSE row[CHOOSE j \in FieldColumns(cols, f_ISIN) : \A m \in FieldColumns(cols, f_ISIN) : j <= m]

\* ---- C1
\* C1: every row the extractor has captured or returned carries a non-empty
\* Identifier: a column is mapped to ISIN and the row's cell in every such column is
\* a number or a text that is not blank (never empty, missing, blank or NaN).
EmittedHasIdentifier(cols, row) ==
    /\ FieldColumns(cols, f_ISIN) # {}
    /\ \A j \in FieldColumns(cols, f_ISIN) : NonEmptyCell(row[j])

C1_IdentifierNeverEmpty ==
    /\ \A k \in 1..Len(filtered_rows) : EmittedHasIdentifier(columns, filtered_rows[k])
    /\ \A k \in 1..Len(df.rows) : EmittedHasIdentifier(columns, df.rows[k])

\* a file whose section holds a row with a blank Identifier before a row with one:
\* the first is dropped, the second returned
C1_Witness ==
    /\ xpc = "returned"
    /\ grid = <<hdr_std, row_start, row_blankisin, row_acme>>
    /\ df.ok
    /\ df.rows = <<row_acme>>

\* ---- C10
\* The text of a row: its cells joined, lower-cased, whitespace collapsed
RowText(row) == SplitJoin(Lower(JoinRow(row)))

QualifyingRow(row) == NonEmptyCell(IdentifierOf(columns, row))

\* C10 (as claimed): when the file has a header and a start-marker row after it, and no
\* row after that start marker contains a stop marker, the extractor returns exactly
\* the rows after the start marker that have a non-empty Identifier, in file order.
C10_CapturesThroughEndOfFile ==
    (xpc = "returned" /\ header_row_idx > 0) =>
        \A s \in (header_row_idx + 1)..Len(grid) :
            ( /\ IsStartRow(RowText(grid[s]))
              /\ \A k \in (header_row_idx + 1)..(s - 1) : ~IsStartRow(RowText(grid[k]))
              /\ \A k \in (s + 1)..Len(grid) : ~IsStopRow(RowText(grid[k])) )
            => /\ df.ok
               /\ df.rows = SelectSeq(SubSeq(grid, s + 1, Len(grid)), QualifyingRow)

\* ---- C2
\* The value a metric reads back as: the number when the stored value is one, 0.0
\* when it is absent, NaN or no number
Zeroed(raw) ==
    IF raw.t = "num" THEN raw
    ELSE IF raw.t = "str" /\ IsDigit(Strip(raw.s)) THEN Num(IntOf(Strip(raw.s)))
    ELSE Num(0)

\* Name, Rating as text: empty when the value is missing
MetaText(x) == IF x.t \in {"none", "nan"} THEN <<>> ELSE PyStr(x)

\* A PortfolioEntry restricted to {Identifier, Name, Rating, Months}, zero-coerced,
\* over the given PeriodSequence
EntryRecord(e, months) ==
    [Name |-> e.Name,
     ISIN |-> e.isin,
     Rating |-> MetaText(e.Rating),
     Months |-> [k \in 1..Len(months) |->
                    [month |-> Str(months[k]),
                     Quantity |-> Zeroed(NodeOf(e, months[k], "Quantity")),
                     Value |-> Zeroed(NodeOf(e, months[k], "MarketValue")),
                     Pct |-> Zeroed(NodeOf(e, months[k], "PctAssets"))]]]

EntryRecords(pf, months) == [k \in 1..Len(pf) |-> EntryRecord(pf[k], months)]

RECURSIVE SumZeroed(_, _, _)
SumZeroed(pf, m, key) ==
    IF pf = <<>> THEN 0
    ELSE SumZeroed(Tail(pf), m, key) + Zeroed(NodeOf(pf[1], m, key)).n

HasNaN(pf, m, key) ==
    \E k \in 1..Len(pf) :
        LET raw == NodeOf(pf[k], m, key)
        IN  raw.t = "nan" \/ (raw.t = "str" /\ Lower(Strip(raw.s)) = <<"n", "a", "n">>)

TotalRead(pf, m, key) == IF HasNaN(pf, m, key) THEN Num(0) ELSE Num(SumZeroed(pf, m, key))

TotalRecord(pf, months) ==
    [Name |-> Str(<<"T", "o", "t", "a", "l">>),
     ISIN |-> <<>>,
     Rating |-> <<>>,
     Months |-> [k \in 1..Len(months) |->
                    [month |-> Str(months[k]),
                     Quantity |-> TotalRead(pf, months[k], "Quantity"),
                     Value |-> TotalRead(pf, months[k], "MarketValue"),
                     Pct |-> TotalRead(pf, months[k], "PctAssets")]]]

\* the entries the reader keeps: those whose Name is a value pandas does not read
\* as missing
NameKept(rec) == rec.Name.t = "num" \/ (rec.Name.t = "str" /\ rec.Name.s \notin NaTexts)

C3_TotalsAreSums ==
    pc \in {"saved", "served"} =>
        \A c \in 4..Width(sorted_months) :
            ws[Len(ws)][c] = Num(SumZeroed(portfolio, sorted_months[((c - 4) \div 3) + 1],
                                           MetricKeys[((c - 4) % 3) + 1]))

\* ---- C4
EmptyMeta(x) == x.t \in {"none", "nan"} \/ x = Str(<<>>)

MetaField(fld) == IF fld = "Name" THEN f_Name ELSE f_Rating

\* the rows of a frame for an Identifier that supply a non-empty value of a field
Suppliers(frame, isin, fld) ==
    {k \in 1..Len(frame.rows) :
        /\ Strip(PyStr(IdentifierOf(frame.columns, frame.rows[k]))) = isin
        /\ ~EmptyMeta(RowGet(frame.columns, frame.rows[k], MetaField(fld), None))}

FirstSupplied(frame, isin, fld) ==
    LET k == CHOOSE a \in Suppliers(frame, isin, fld) : \A b \in Suppliers(frame, isin, fld) : a <= b
    IN  RowGet(frame.columns, frame.rows[k], MetaField(fld), None)

\* C4 (as claimed): when a file is merged, every entry whose Name (Rating) was empty
\* or absent and for which the file supplies a non-empty Name (Rating) holds the
\* first such value afterwards.
C4_EmptyMetadataFilled ==
    [][ (pc = "loop" /\ pc' = "loop" /\ Len(files') = Len(files) + 1) =>
           \A k \in 1..Len(portfolio) : \A fld \in {"Name", "Rating"} :
               (EmptyMeta(portfolio[k][fld]) /\ Suppliers(df', portfolio[k].isin, fld) # {})
               => portfolio'[k][fld] = FirstSupplied(df', portfolio[k].isin, fld) ]_vars

\* ---- C5
NonEmptyMeta(x) == x.t = "str" /\ x.s # <<>>

\* C5: no step changes a Name or a Rating that is a non-empty text, and no step
\* moves or removes the entry.
C5_MetadataKept ==
    [][ \A k \in 1..Len(portfolio) :
           /\ k <= Len(portfolio')
           /\ portfolio'[k].isin = portfolio[k].isin
           /\ \A fld \in {"Name", "Rating"} :
                 NonEmptyMeta(portfolio[k][fld]) => portfolio'[k][fld] = portfolio[k][fld] ]_vars

\* an entry named by the first file, merged again from a second file that carries
\* another Name and another Rating for the same Identifier
C5_Witness ==
    /\ pc = "loop"
    /\ Len(files) = 2
    /\ df.ok
    /\ \E k \in 1..Len(portfolio) : \E r \in 1..Len(df.rows) :
          /\ Strip(PyStr(IdentifierOf(df.columns, df.rows[r]))) = portfolio[k].isin
          /\ NonEmptyMeta(portfolio[k].Name)
          /\ NonEmptyMeta(RowGet(df.columns, df.rows[r], f_Name, None))
          /\ RowGet(df.columns, df.rows[r], f_Name, None) # portfolio[k].Name
          /\ NonEmptyMeta(portfolio[k].Rating)
          /\ RowGet(df.columns, df.rows[r], f_Rating, None) # portfolio[k].Rating

\* ---- C6
\* the metrics of a row under the column map
MetricsOf(cols, row) ==
    [Quantity |-> RowGet(cols, row, f_Quantity, None),
     MarketValue |-> RowGet(cols, row, f_MarketValue, None),
     PctAssets |-> RowGet(cols, row, f_PctAssets, None)]

RowsFor(frame, isin) ==
    {k \in 1..Len(frame.rows) : Strip(PyStr(IdentifierOf(frame.columns, frame.rows[k]))) = isin}

\* C6: after a file is merged, merging the same (Period, record list) again changes
\* nothing, and every Identifier of the file holds for that Period the metrics of
\* its last row in the file, whatever was stored for the Period before.
C6_PeriodReplaced ==
    (pc = "loop" /\ files # <<>>) =>
        /\ MergeFile(portfolio, df, fname) = [portfolio |-> portfolio, raised |-> FALSE]
        /\ \A r \in 1..Len(df.rows) :
              LET isin == Strip(PyStr(IdentifierOf(df.columns, df.rows[r])))
                  last == CHOOSE a \in RowsFor(df, isin) : \A b \in RowsFor(df, isin) : a >= b
              IN  /\ Cardinality({k \in 1..Len(portfolio) : portfolio[k].isin = isin}) = 1
                  /\ fname \in DOMAIN portfolio[IndexOf(portfolio, isin)].Months
                  /\ portfolio[IndexOf(portfolio, isin)].Months[fname]
                        = MetricsOf(df.columns, df.rows[last])

\* two files with the same label: the entry was made by the first, and the second
\* carries other metrics for its Identifier
C6_Witness ==
    /\ pc = "loop"
    /\ Len(files) = 2
    /\ files[1] = files[2]
    /\ df = FrameOf[<<hdr_std, row_start, row_apex>>]
    /\ Len(portfolio) = 1
    /\ portfolio[1].Name = Str(t_Acme)
    /\ portfolio[1].Months = [m \in {fname} |-> MetricsOf(df.columns, row_apex)]

\* ---- C7
WellFormedLabel(label) ==
    LET parts == SplitUnderscore(label)
    IN  /\ Len(parts) = 2
        /\ \E k \in 1..12 : month_order[k] = parts[1]
        /\ IsDigit(parts[2])

YearMonth(label) ==
    LET parts == SplitUnderscore(label)
    IN  <<IntOf(parts[2]), CHOOSE k \in 1..12 : month_order[k] = parts[1]>>

\* C7 (as claimed): in the PeriodSequence every malformed label comes after every
\* well-formed one, and the well-formed labels are in increasing (year, month) order.
C7_MalformedLast ==
    pc \in {"saved", "served"} =>
        \A a, b \in 1..Len(sorted_months) :
            a < b =>
                /\ ~(~WellFormedLabel(sorted_months[a]) /\ WellFormedLabel(sorted_months[b]))
                /\ (WellFormedLabel(sorted_months[a]) /\ WellFormedLabel(sorted_months[b]))
                      => KeyLeq(YearMonth(sorted_months[a]), YearMonth(sorted_months[b]))

\* ---- C8
FirstSeen(label) == CHOOSE a \in 1..Len(files) : files[a] = label /\ \A b \in 1..(a - 1) : files[b] # label

\* C8 (as claimed): labels with equal PeriodKey appear in the PeriodSequence in the
\* order of their first sighting.
C8_TiesInDiscoveryOrder ==
    pc \in {"saved", "served"} =>
        \A a, b \in 1..Len(sorted_months) :
            (a < b /\ sort_months_key(sorted_months[a]) = sort_months_key(sorted_months[b]))
            => FirstSeen(sorted_months[a]) < FirstSeen(sorted_months[b])

\* ---- C9
\* data row r of the sheet is sheet row r + 3
MonthAt(c) == sorted_months[((c - 4) \div 3) + 1]
KeyAt(c) == MetricKeys[((c - 4) % 3) + 1]

\* C9 (as claimed): a cell of a Period the entry has no Months entry for, and a cell
\* of an absent metric, holds 0.0.
C9_AbsentIsZero ==
    pc \in {"saved", "served"} =>
        \A r \in 1..Len(portfolio) : \A c \in 4..Width(sorted_months) :
            NodeOf(portfolio[r], MonthAt(c), KeyAt(c)).t = "none" => ws[r + 3][c] = Num(0)

\* C9 (amended): such a cell is left empty; a stored number is written as itself, a
\* stored text as its number or, when it is no number, as 0.0, a stored NaN as NaN.
C9_CellValues ==
    pc \in {"saved", "served"} =>
        \A r \in 1..Len(portfolio) : \A c \in 4..Width(sorted_months) :
            LET raw == NodeOf(portfolio[r], MonthAt(c), KeyAt(c))
            IN  ws[r + 3][c] =
                    CASE raw.t = "none" -> None
                      [] raw.t = "nan" -> NaN
                      [] raw.t = "str" /\ Lower(Strip(raw.s)) = <<"n", "a", "n">> -> NaN
                      [] OTHER -> Zeroed(raw)

\* a two-month report with a holding that has no entry for one of the months and a
\* holding with a metric that is no number
C9_Witness ==
    /\ pc = "saved"
    /\ Len(sorted_months) = 2
    /\ \E r \in 1..Len(portfolio) : DOMAIN portfolio[r].Months # all_months
    /\ \E r \in 1..Len(portfolio) : \E m \in DOMAIN portfolio[r].Months :
          portfolio[r].Months[m].Quantity = Str(t_NIL)

\* ---- C11
\* The six substring rules of normalize_header, in order, and their fields
RuleWords ==
    << { <<"i", "n", "s", "t", "r", "u", "m", "e", "n", "t">> },
       { <<"i", "s", "i", "n">> },
       { <<"i", "n", "d", "u", "s", "t", "r", "y">>, <<"r", "a", "t", "i", "n", "g">> },
       { <<"q", "u", "a", "n", "t", "i", "t", "y">> },
       { <<"m", "a", "r", "k", "e", "t", " ", "v", "a", "l", "u", "e">>,
         <<"r", "s", ".", " ", "i", "n", " ", "l", "a", "k", "h", "s">> },
       { <<"%", " ", "t", "o", " ", "n", "e", "t", " ", "a", "s", "s", "e", "t", "s">>,
         <<"p", "e", "r", "c", "e", "n", "t", "a", "g", "e">>, <<"%">> } >>

RuleField == <<f_Name, f_ISIN, f_Rating, f_Quantity, f_MarketValue, f_PctAssets>>

\* rule i matches a text: the lower-cased text, a newline counting as a blank, holds
\* one of the rule's words
RuleMatches(i, text) == \E w \in RuleWords[i] : Contains(ReplaceNewline(Lower(text)), w)

MatchingRules(text) == {i \in 1..6 : RuleMatches(i, text)}

FirstRuleField(text) ==
    RuleField[CHOOSE i \in MatchingRules(text) : \A m \in MatchingRules(text) : i <= m]

\* C11 (as claimed): a variant of a recognized header wording, made by changing letter
\* case, by putting a newline in place of or next to an internal blank, or by adding
\* whitespace around it, is given the canonical field of the wording.
C11_VariantsAgree ==
    (npc = "done" /\ MatchingRules(base) # {}) => result = FirstRuleField(base)

\* ---- C18
\* C18 (as claimed): the result is the field of the lowest-numbered rule that matches
\* the label, and a label that matches no rule is not given a canonical field.
C18_FirstRuleWins ==
    npc = "done" =>
        IF MatchingRules(col) # {}
        THEN result = FirstRuleField(col)
        ELSE result \notin CanonicalFields

\* ---- C12
\* the file read last failed: it has no header row, its reading raised, or its
\* section yielded no record
FileFailed(g, frame) == FindHeaderRow(g) = 0 \/ ~frame.ok \/ frame.rows = <<>>

\* C12: a step that processes a failing file leaves the merged mapping as it was and
\* stays in the loop over the files, so the files after it are processed.
C12_FailuresAreLocal ==
    [][ (Len(files') = Len(files) + 1 /\ FileFailed(grid', df'))
           => (portfolio' = portfolio /\ pc' = "loop") ]_vars

\* a file that raised while it was read, processed after a file that was merged, and
\* the entry of the first file still there
C12_Witness ==
    /\ pc = "loop"
    /\ Len(files) = 2
    /\ grid = <<hdr_dupisin, row_start, row_acme>>
    /\ ~df.ok
    /\ Len(portfolio) = 1
    /\ DOMAIN portfolio[1].Months = {files[1]}

\* ---- C13
IdsOf(pf) == [k \in 1..Len(pf) |-> pf[k].isin]

\* the Identifiers known, followed by the Identifiers of the rows that are new, each
\* once, in the order of their first row
RECURSIVE Discovered(_, _, _)
Discovered(known, cols, rows) ==
    IF rows = <<>> THEN known
    ELSE LET id == Strip(PyStr(IdentifierOf(cols, rows[1])))
         IN  Discovered(IF \E k \in 1..Len(known) : known[k] = id THEN known ELSE Append(known, id),
                        cols, Tail(rows))

\* C13: merging a file keeps the entries in their order and puts the Identifiers seen
\* for the first time after them, in the order of their first row in the file; the
\* data rows of the saved sheet are the entries in that order, one row each.
C13_DiscoveryOrder ==
    [][ /\ (Len(files') = Len(files) + 1)
              => IdsOf(portfolio') = Discovered(IdsOf(portfolio), df'.columns, df'.rows)
        /\ (pc' = "saved")
              => /\ Len(ws') = Len(portfolio) + 4
                 /\ \A r \in 1..Len(portfolio) : ws'[r + 3][2] = Str(portfolio[r].isin) ]_vars

\* a sheet of two holdings: the first was discovered in the first file and updated
\* by the second file, which also brought the second holding
C13_Witness ==
    /\ pc = "saved"
    /\ Len(files) = 2
    /\ files[1] # files[2]
    /\ Len(portfolio) = 2
    /\ DOMAIN portfolio[1].Months = {files[1], files[2]}
    /\ DOMAIN portfolio[2].Months = {files[2]}
    /\ ws[4][2] = Str(portfolio[1].isin)
    /\ ws[5][2] = Str(portfolio[2].isin)

\* ---- C19
\* the Identifiers of the records of a frame
IdsIn(frame) ==
    {Strip(PyStr(IdentifierOf(frame.columns, frame.rows[k]))) : k \in 1..Len(frame.rows)}

\* C19: a step that merges a file for Period P removes no entry and moves none,
\* leaves every entry whose Identifier is not in the file as it was, and leaves every
\* Months entry of a Period other than P as it was.
C19_MergeFootprint ==
    [][ (Len(files') = Len(files) + 1) =>
           /\ Len(portfolio') >= Len(portfolio)
           /\ \A k \in 1..Len(portfolio) :
                 /\ portfolio'[k].isin = portfolio[k].isin
                 /\ portfolio[k].isin \notin IdsIn(df') => portfolio'[k] = portfolio[k]
                 /\ \A m \in DOMAIN portfolio[k].Months :
                       /\ m \in DOMAIN portfolio'[k].Months
                       /\ m # fname' => portfolio'[k].Months[m] = portfolio[k].Months[m] ]_vars

\* the second file, of another Period, carries one of the two Identifiers of the
\* first: that entry has both Periods, the other entry only the first
C19_Witness ==
    /\ pc = "loop"
    /\ Len(files) = 2
    /\ files[1] # files[2]
    /\ Len(portfolio) = 2
    /\ IdsIn(df) = {portfolio[1].isin}
    /\ DOMAIN portfolio[1].Months = {files[1], files[2]}
    /\ DOMAIN portfolio[2].Months = {files[1]}

\* ---- C20
LabelsSeen == {files[k] : k \in 1..Len(files)}

\* no holding has a Months entry for the label: every file of that label was skipped
\* or yielded no record
Unheld(label) == \A r \in 1..Len(portfolio) : label \notin DOMAIN portfolio[r].Months

\* C20: the saved sheet has one column group per distinct label of the files
\* discovered, whether or not the file was read; the group of a label no holding has
\* an entry for is empty in every data row and has totals 0.0.
C20_EveryLabelHasGroup ==
    pc \in {"saved", "served"} =>
        /\ {sorted_months[k] : k \in 1..Len(sorted_months)} = LabelsSeen
        /\ Len(sorted_months) = Cardinality(LabelsSeen)
        /\ \A r \in 1..Len(ws) : Len(ws[r]) = 3 + 3 * Len(sorted_months)
        /\ \A k \in 1..Len(sorted_months) :
              /\ ws[2][3 * k + 1] = Str(sorted_months[k])
              /\ Unheld(sorted_months[k]) =>
                    \A c \in (3 * k + 1)..(3 * k + 3) :
                        /\ \A r \in 1..Len(portfolio) : ws[r + 3][c] = None
                        /\ ws[Len(ws)][c] = Num(0)

\* two labels, the file of the second has no header row: its group is in the sheet
\* next to the group of the first, which a holding has values for
C20_Witness ==
    /\ pc = "saved"
    /\ Len(files) = 2
    /\ files[1] # files[2]
    /\ FindHeaderRow(grid) = 0
    /\ Len(portfolio) = 1
    /\ DOMAIN portfolio[1].Months = {files[1]}
    /\ Len(sorted_months) = 2
    /\ Len(ws[2]) = 9

\* ---- C14
\* the loop over the rows takes a step: it moves to the next row or leaves the loop
RowStep == idx' # idx \/ xpc' # xpc

\* C14 (as claimed): while capturing, a row whose text (all its cells) contains a stop
\* marker ends the scan; that row is not emitted and no row after it is.
C14_StopTextEndsScan ==
    [][ /\ (xpc = "rows" /\ idx <= Len(grid) /\ capturing /\ RowStep
               /\ IsStopRow(RowText(grid[idx])))
              => (xpc' = "after" /\ filtered_rows' = filtered_rows)
        /\ (xpc = "after") => filtered_rows' = filtered_rows ]_vars

\* The text the scan looks at: the Name cell when the row has a Name that is not
\* empty and not 'nan', all the cells of the row otherwise
CheckedText(cols, row) ==
    LET name == PyStr(RowGet(cols, row, f_Name, Str(<<>>)))
    IN  IF name = <<>> \/ Lower(name) = <<"n", "a", "n">> THEN RowText(row)
        ELSE SplitJoin(Lower(name))

StartsSection(cols, row) == IsStartRow(CheckedText(cols, row))

StopsScan(cols, row) == IsStopRow(CheckedText(cols, row)) /\ ~StartsSection(cols, row)

\* C14 (amended): while capturing, a row that is no start-marker row and whose
\* checked text contains a stop marker ends the scan, is not emitted, and no row
\* after it is emitted; any other row does not end the scan, also when a cell other
\* than Name holds a stop marker next to a non-empty Name.
C14_StopEndsScan ==
    [][ /\ (xpc = "rows" /\ idx <= Len(grid) /\ capturing /\ RowStep)
              => IF StopsScan(columns, grid[idx])
                 THEN xpc' = "after" /\ filtered_rows' = filtered_rows
                 ELSE xpc' # "after"
        /\ (xpc = "after")
              => /\ filtered_rows' = filtered_rows
                 /\ xpc' = "returned" => df'.rows \in {filtered_rows, <<>>} ]_vars

\* a holding whose Rating cell reads 'Cash' is captured, the 'Sub Total' row after it
\* ends the scan
C14_Witness ==
    /\ xpc = "returned"
    /\ grid = <<hdr_std, row_start, row_cash, row_total>>
    /\ df.ok
    /\ df.rows = <<row_cash>>

\* ---- C15
FirstIn(S) == CHOOSE a \in S : \A b \in S : a <= b

\* the rows strictly between the first start-marker row and the first stop-marker row
\* after it (the end of the file when there is none), the markers looked for in the
\* text of all the cells of a row
WindowByRowText ==
    LET starts == {s \in (header_row_idx + 1)..Len(grid) : IsStartRow(RowText(grid[s]))}
        stops == {s \in (header_row_idx + 1)..Len(grid) :
                     s > FirstIn(starts) /\ IsStopRow(RowText(grid[s]))}
    IN  IF starts = {} THEN {}
        ELSE {s \in (FirstIn(starts) + 1)..Len(grid) :
                 /\ stops # {} => s < FirstIn(stops)
                 /\ ~IsStartRow(RowText(grid[s]))}

\* the number of times a row value occurs at the given positions of the file
CountAt(S, row) == Cardinality({s \in S : grid[s] = row})

CountIn(rows, row) == Cardinality({k \in 1..Len(rows) : rows[k] = row})

\* C15 (as claimed): every emitted record comes from a row strictly between the
\* first start-marker row and the first later stop-marker row, a start-marker row is
\* never emitted, and nothing is emitted while seeking or after the scan is done.
C15_EmittedInsideSection ==
    (xpc = "returned" /\ header_row_idx > 0) =>
        \A k \in 1..Len(df.rows) : CountIn(df.rows, df.rows[k]) <= CountAt(WindowByRowText, df.rows[k])

\* the same rows, the markers looked for in the checked text
Window ==
    LET starts == {s \in (header_row_idx + 1)..Len(grid) : StartsSection(columns, grid[s])}
        stops == {s \in (header_row_idx + 1)..Len(grid) :
                     s > FirstIn(starts) /\ StopsScan(columns, grid[s])}
    IN  IF starts = {} THEN {}
        ELSE {s \in (FirstIn(starts) + 1)..Len(grid) :
                 /\ stops # {} => s < FirstIn(stops)
                 /\ ~StartsSection(columns, grid[s])}

EmittedInWindow ==
    (xpc = "returned" /\ header_row_idx > 0) =>
        /\ \A k \in 1..Len(df.rows) : CountIn(df.rows, df.rows[k]) <= CountAt(Window, df.rows[k])
        /\ df.ok => \A s \in Window :
              NonEmptyCell(IdentifierOf(columns, grid[s]))
                 => CountIn(df.rows, grid[s]) = CountAt(Window, grid[s])

\* C15 (amended): with the markers looked for in the checked text of a row (the Name
\* cell when it is not empty, all cells otherwise), the scan only moves from seeking
\* to capturing to done: nothing is emitted while seeking, a stop marker seen while
\* seeking does not end the scan, capturing never falls back to seeking, nothing is
\* emitted once the scan is done, and the emitted records are rows strictly between
\* the first start-marker row and the first later stop-marker row, none of them a
\* start-marker row.
C15_ScanOrder ==
    /\ [] EmittedInWindow
    /\ [][ /\ (xpc = "rows" /\ ~capturing) => (filtered_rows = <<>> /\ filtered_rows' = <<>>)
           /\ (xpc = "rows" /\ ~capturing /\ idx <= Len(grid) /\ RowStep) => xpc' = "rows"
           /\ (xpc = "rows" /\ capturing /\ xpc' = "rows") => capturing'
           /\ (xpc \in {"after", "returned"})
                 => (xpc' \in {"after", "returned"} /\ filtered_rows' = filtered_rows) ]_vars

\* a 'Sub Total' row before the start marker does not end the scan: the holding after
\* the start-marker row is emitted
C15_Witness ==
    /\ xpc = "returned"
    /\ grid = <<hdr_std, row_total, row_start, row_acme>>
    /\ df.ok
    /\ df.rows = <<row_acme>>

\* ---- C16
\* the Header Normalizer maps a cell of the row to Identifier and another cell to
\* Quantity
NormalizedHeaderRow(row) ==
    \E j, m \in 1..Len(row) :
        /\ j # m
        /\ normalize_header(row[j]) = f_ISIN
        /\ normalize_header(row[m]) = f_Quantity

\* C16 (as claimed): the header row is the first row in which the normalizer maps a
\* cell to Identifier and another cell to Quantity; when there is no such row the
\* file fails and nothing is read from it.
C16_HeaderByNormalizer ==
    xpc # "header" =>
        IF \E k \in 1..Len(grid) : NormalizedHeaderRow(grid[k])
        THEN /\ header_row_idx > 0
             /\ NormalizedHeaderRow(grid[header_row_idx])
             /\ \A k \in 1..(header_row_idx - 1) : ~NormalizedHeaderRow(grid[k])
        ELSE header_row_idx = 0 /\ xpc = "returned" /\ df = NoFrame

\* ---- C17
\* the column map with only the leftmost column of every canonical field
LeftmostOnly(cols) ==
    [j \in 1..Len(cols) |->
        IF \E m \in 1..(j - 1) : cols[m] = cols[j] /\ cols[j].s \in CanonicalFields
        THEN Str(<<"d", "r", "o", "p", "p", "e", "d", " ">> \o Decimal(j))
        ELSE cols[j]]

\* the records of a file under the leftmost-only column map
LeftmostFrame(g) ==
    LET hdr == FindHeaderRow(g)
    IN  IF hdr = 0 THEN NoFrame
        ELSE LET cols == LeftmostOnly(RenameColumns(PandasLabels(g[hdr])))
             IN  ReturnOf(cols, ScanRows(cols, ScanInit, SubSeq(g, hdr + 1, Len(g))))

\* C17 (as claimed): a file with a header row is accepted also when two of its header
\* cells normalize to the same field, and what is merged from it is what the
\* leftmost column of every field holds.
C17_LeftmostColumnWins ==
    [][ (Len(files') = Len(files) + 1 /\ FindHeaderRow(grid') > 0) =>
           /\ df'.ok
           /\ pc' = "loop"
           /\ portfolio' = MergeFile(portfolio, LeftmostFrame(grid'), fname').portfolio ]_vars

\* ---- C21
\* the Identifiers that several records of the frame carry
RepeatedIds(frame) == {id \in IdsIn(frame) : Cardinality(RowsFor(frame, id)) > 1}

LastRowFor(frame, id) == CHOOSE a \in RowsFor(frame, id) : \A b \in RowsFor(frame, id) : a >= b

\* C21: after a file in which an Identifier stands on several captured rows, the
\* mapping holds one entry for that Identifier, and its metrics for the file's
\* Period are those of the last such row: not those of an earlier row, not a sum.
C21_LastRowOfFileWins ==
    (pc = "loop" /\ files # <<>>) =>
        \A id \in RepeatedIds(df) :
            LET entries == {k \in 1..Len(portfolio) : portfolio[k].isin = id}
            IN  /\ Cardinality(entries) = 1
                /\ \A k \in entries :
                      /\ fname \in DOMAIN portfolio[k].Months
                      /\ \A key \in {"Quantity", "MarketValue", "PctAssets"} :
                            portfolio[k].Months[fname][key]
                               = MetricsOf(df.columns, df.rows[LastRowFor(df, id)])[key]

\* a file with the Identifier INE1 on two rows, the first with market value 50, the
\* last with 7: one entry, named by the first row, with the last row's metrics
C21_Witness ==
    /\ pc = "loop"
    /\ grid = <<hdr_std, row_start, row_acme, row_apex>>
    /\ RepeatedIds(df) = {t_INE1}
    /\ Len(portfolio) = 1
    /\ portfolio[1].Name = Str(t_Acme)
    /\ portfolio[1].Months[fname].MarketValue = Num(7)
    /\ portfolio[1].Months[fname].Quantity = Str(t_NIL)
====
